---- MODULE Spec2Model ----
(***************************************************************************)
(* Model of src/gsp-english.py: class GeneralizedEnglishAuction.            *)
(*                                                                         *)
(* An instance is (n_slots, ctrs, values).  CTRs are integers counted in   *)
(* a common unit (the code only uses ratios and differences of CTRs, so   *)
(* ctrs = [1, 0.5, 0] is <<2, 1, 0>>); values are positive integers.       *)
(* Prices are exact rationals <<numerator, denominator>> in lowest terms.  *)
(* Python sequences are 0-based; Py(seq, k) is Python's seq[k].            *)
(***************************************************************************)
EXTENDS Integers, Sequences, FiniteSets, TLC

VARIABLES n_slots, ctrs, values,          \* the instance (self.*)
          pc, err,                        \* position in the program, exception raised
          active_advertisers, history, allocation, prices,
          next_slot_to_fill, dropout_prices, next_dropout, price,
          rounds,                         \* elimination-loop iterations completed
          sorted_indices, vcg_prices, vcg_done

vars == <<n_slots, ctrs, values, pc, err, active_advertisers, history,
          allocation, prices, next_slot_to_fill, dropout_prices,
          next_dropout, price, rounds, sorted_indices, vcg_prices, vcg_done>>

instance == <<n_slots, ctrs, values>>
locals == <<active_advertisers, history, allocation, prices,
            next_slot_to_fill, dropout_prices, next_dropout, price, rounds>>
vcgvars == <<sorted_indices, vcg_prices, vcg_done>>

\* ---------------------------------------------------------------- bounds
MaxSlots == 3
MaxCtr == 3
MaxAdv == 4
MaxVal == 5
MaxTieVal == 2

\* ------------------------------------------------------- exact arithmetic
Abs(x) == IF x < 0 THEN -x ELSE x

RECURSIVE GCD(_, _)
GCD(a, b) == IF b = 0 THEN a ELSE GCD(b, a % b)

\* n/d with d > 0, in lowest terms
Rat(n, d) == LET g == GCD(Abs(n), d) IN <<n \div g, d \div g>>
Zero == <<0, 1>>
FromInt(n) == <<n, 1>>
RSub(x, y) == Rat(x[1] * y[2] - y[1] * x[2], x[2] * y[2])
RMul(x, y) == Rat(x[1] * y[1], x[2] * y[2])
RLess(x, y) == x[1] * y[2] < y[1] * x[2]
RLeq(x, y) == x[1] * y[2] <= y[1] * x[2]

\* Python indexing: 0-based, negative indices count from the end
Py(seq, k) == IF k >= 0 THEN seq[k + 1] ELSE seq[Len(seq) + k + 1]
InRange(seq, k) == /\ k < Len(seq)
                   /\ k >= -Len(seq)

Min(a, b) == IF a < b THEN a ELSE b

\* ------------------------------------------- equilibrium_dropout_price
\* a run that takes the oldest drop-out price instead of the most recent
bi_minus_1_oldest(h) == IF h = <<>> THEN Zero ELSE h[1]

bi_minus_1(h) == IF h = <<>> THEN Zero ELSE h[Len(h)]

position_index(i) == i - 1

\* the index into ctrs that each of the two lookups uses
alpha_i_index(i) ==
    IF position_index(i) < Len(ctrs) THEN position_index(i) ELSE -2

alpha_i_minus_1_index(i) ==
    IF position_index(i) < Len(ctrs) - 1 THEN position_index(i) - 1 ELSE -3

alpha_i(i) == Py(ctrs, alpha_i_index(i))
alpha_i_minus_1(i) == Py(ctrs, alpha_i_minus_1_index(i))

\* the exception the call raises, or "none"
dropout_error(i) ==
    IF ~InRange(ctrs, alpha_i_index(i)) \/ ~InRange(ctrs, alpha_i_minus_1_index(i))
    THEN "IndexError"
    ELSE IF alpha_i_minus_1(i) = 0 THEN "ZeroDivisionError"
    ELSE "none"

\* the formula with the ratio inverted
equilibrium_dropout_price_inverted(i, h, value) ==
    IF alpha_i(i) = 0 THEN FromInt(value)
    ELSE RSub(FromInt(value),
              RMul(Rat(alpha_i_minus_1(i), alpha_i(i)),
                   RSub(FromInt(value), bi_minus_1(h))))

equilibrium_dropout_price(i, h, value) ==
    RSub(FromInt(value),
         RMul(Rat(alpha_i(i), alpha_i_minus_1(i)),
              RSub(FromInt(value), bi_minus_1(h))))

\* ---------------------------------------------------------------- sort
\* list.sort(key=price) is stable: an element goes after all that are <= it
RECURSIVE InsertByPriceUnstable(_, _)
\* an unstable sort: an element goes before those equal to it
InsertByPriceUnstable(sorted, e) ==
    IF sorted = <<>> THEN <<e>>
    ELSE IF RLeq(e[2], Head(sorted)[2]) THEN <<e>> \o sorted
    ELSE <<Head(sorted)>> \o InsertByPriceUnstable(Tail(sorted), e)

RECURSIVE InsertByPriceReverse(_, _)
\* a sort with reverse=True
InsertByPriceReverse(sorted, e) ==
    IF sorted = <<>> THEN <<e>>
    ELSE IF RLess(Head(sorted)[2], e[2]) THEN <<e>> \o sorted
    ELSE <<Head(sorted)>> \o InsertByPriceReverse(Tail(sorted), e)

RECURSIVE InsertByPrice(_, _)
InsertByPrice(sorted, e) ==
    IF sorted = <<>> THEN <<e>>
    ELSE IF RLess(e[2], Head(sorted)[2]) THEN <<e>> \o sorted
    ELSE <<Head(sorted)>> \o InsertByPrice(Tail(sorted), e)

RECURSIVE SortByPrice(_)
SortByPrice(seq) ==
    IF seq = <<>> THEN <<>>
    ELSE InsertByPrice(SortByPrice(SubSeq(seq, 1, Len(seq) - 1)), seq[Len(seq)])

\* the list built by the for loop over active_advertisers, then sorted
ComputeDropoutPrices ==
    SortByPrice([k \in 1..Len(active_advertisers) |->
        <<active_advertisers[k],
          equilibrium_dropout_price(Len(active_advertisers), history,
                                    Py(values, active_advertisers[k]))>>])

\* list.remove(x): drops the first occurrence
Remove(seq, x) ==
    LET k == CHOOSE j \in 1..Len(seq) :
                 seq[j] = x /\ \A m \in 1..(j - 1) : seq[m] # x
    IN SubSeq(seq, 1, k - 1) \o SubSeq(seq, k + 1, Len(seq))

\* ---------------------------------------------------------------- Init
SeqsOf(S, lo, hi) == UNION {[1..k -> S] : k \in lo..hi}

WeaklyDescending(c) == \A k \in 1..(Len(c) - 1) : c[k] >= c[k + 1]
StrictlyDescending(c) == \A k \in 1..(Len(c) - 1) : c[k] > c[k + 1]
PositiveSlots(c) == \A k \in 1..(Len(c) - 1) : c[k] > 0
Distinct(v) == \A a, b \in 1..Len(v) : a # b => v[a] # v[b]
AllEqual(v) == \A a, b \in 1..Len(v) : v[a] = v[b]

\* CTR sequences for n slots: n entries and the terminal 0, weakly descending
WeakCtrs(n) ==
    {c \in [1..(n + 1) -> 0..MaxCtr] : c[n + 1] = 0 /\ WeaklyDescending(c)}

InitLocals ==
    /\ pc = "new"
    /\ err = "none"
    /\ active_advertisers = <<>>
    /\ history = <<>>
    /\ allocation = <<>>
    /\ prices = <<>>
    /\ next_slot_to_fill = 0
    /\ dropout_prices = <<>>
    /\ next_dropout = -1
    /\ price = Zero
    /\ rounds = 0
    /\ sorted_indices = <<>>
    /\ vcg_prices = <<>>
    /\ vcg_done = FALSE

\* valid instances: positive weakly descending CTRs, at least one advertiser,
\* values on few levels so that ties are frequent
Init ==
    /\ n_slots \in 1..MaxSlots
    /\ ctrs \in {c \in WeakCtrs(n_slots) : PositiveSlots(c)}
    /\ values \in SeqsOf(1..MaxTieVal, 1, MaxAdv)
    /\ InitLocals

\* non-negative weakly descending CTRs (slot CTRs may be 0), positive values
InitVcg ==
    /\ n_slots \in 1..MaxSlots
    /\ ctrs \in WeakCtrs(n_slots)
    /\ values \in SeqsOf(1..MaxTieVal, 1, MaxAdv)
    /\ InitLocals

\* strictly descending positive CTRs and pairwise distinct values
InitStrict ==
    /\ n_slots \in 1..MaxSlots
    /\ ctrs \in {c \in WeakCtrs(n_slots) : StrictlyDescending(c)}
    /\ values \in {v \in SeqsOf(1..MaxVal, 1, MaxAdv) : Distinct(v)}
    /\ InitLocals

\* positive weakly descending CTRs, all advertisers share one value
InitEqual ==
    /\ n_slots \in 1..MaxSlots
    /\ ctrs \in {c \in WeakCtrs(n_slots) : PositiveSlots(c)}
    /\ values \in {v \in SeqsOf(1..MaxVal, 1, MaxAdv) : AllEqual(v)}
    /\ InitLocals

\* any CTR sequence of n_slots or n_slots + 1 entries, any values (also none)
InitAny ==
    /\ n_slots \in 1..MaxSlots
    /\ ctrs \in SeqsOf(0..MaxCtr, n_slots, n_slots + 1)
    /\ values \in SeqsOf(1..MaxTieVal, 0, MaxAdv)
    /\ InitLocals

\* ------------------------------------------------------------ __init__
Construct ==
    /\ pc = "new"
    /\ IF Len(ctrs) # n_slots + 1 \/ Py(ctrs, -1) # 0
       THEN pc' = "init_raised" /\ err' = "AssertionError"
       ELSE pc' = "constructed" /\ err' = err
    /\ UNCHANGED <<instance, locals, vcgvars>>

\* --------------------------------------------------------- run_auction
RunAuctionStart ==
    /\ pc = "constructed"
    /\ pc' = "running"
    /\ active_advertisers' = [k \in 1..Len(values) |-> k - 1]
    /\ history' = <<>>
    /\ allocation' = [k \in 1..n_slots |-> -1]
    /\ prices' = [k \in 1..Len(values) |-> Zero]
    /\ next_slot_to_fill' = n_slots - 1
    /\ dropout_prices' = <<>>
    /\ UNCHANGED <<instance, err, next_dropout, price, rounds, vcgvars>>

\* a run that forgets to move to the next slot
decrement_slot_forgotten(s) == s

\* next_slot_to_fill -= 1
decrement_slot(s) == s - 1

RaiseInRound ==
    /\ pc' = "raised"
    /\ err' = dropout_error(Len(active_advertisers))
    /\ dropout_prices' = <<>>
    /\ UNCHANGED <<instance, active_advertisers, history, allocation, prices,
                   next_slot_to_fill, next_dropout, price, rounds, vcgvars>>

ExcessRound ==
    /\ pc = "running"
    /\ Len(active_advertisers) > n_slots
    /\ IF dropout_error(Len(active_advertisers)) # "none"
       THEN RaiseInRound
       ELSE LET dp == ComputeDropoutPrices IN
            /\ dropout_prices' = dp
            /\ next_dropout' = dp[1][1]
            /\ price' = dp[1][2]
            /\ prices' = [prices EXCEPT ![dp[1][1] + 1] = Zero]
            /\ history' = Append(history, dp[1][2])
            /\ active_advertisers' = Remove(active_advertisers, dp[1][1])
            /\ rounds' = rounds + 1
            /\ UNCHANGED <<instance, pc, err, allocation, next_slot_to_fill, vcgvars>>

AllocRound ==
    /\ pc = "running"
    /\ ~(Len(active_advertisers) > n_slots)
    /\ Len(active_advertisers) > 1 /\ next_slot_to_fill >= 0
    /\ IF dropout_error(Len(active_advertisers)) # "none"
       THEN RaiseInRound
       ELSE LET dp == ComputeDropoutPrices IN
            /\ dropout_prices' = dp
            /\ next_dropout' = dp[1][1]
            /\ price' = dp[1][2]
            /\ allocation' = [allocation EXCEPT ![next_slot_to_fill + 1] = dp[1][1]]
            /\ prices' = [prices EXCEPT ![dp[1][1] + 1] = bi_minus_1(history)]
            /\ next_slot_to_fill' = decrement_slot(next_slot_to_fill)
            /\ history' = Append(history, dp[1][2])
            /\ active_advertisers' = Remove(active_advertisers, dp[1][1])
            /\ rounds' = rounds + 1
            /\ UNCHANGED <<instance, pc, err, vcgvars>>

FinalAssign ==
    /\ pc = "running"
    /\ ~(Len(active_advertisers) > n_slots)
    /\ ~(Len(active_advertisers) > 1 /\ next_slot_to_fill >= 0)
    /\ pc' = "returned"
    /\ IF active_advertisers # <<>> /\ next_slot_to_fill >= 0
       THEN /\ allocation' = [allocation EXCEPT ![1] = active_advertisers[1]]
            /\ prices' = [prices EXCEPT ![active_advertisers[1] + 1] = bi_minus_1(history)]
       ELSE UNCHANGED <<allocation, prices>>
    /\ UNCHANGED <<instance, err, active_advertisers, history, next_slot_to_fill,
                   dropout_prices, next_dropout, price, rounds, vcgvars>>

\* ---------------------------------------------- calculate_vcg_payments
RECURSIVE DescendingOrders(_)
\* the orders of the advertiser set S that put values in descending order:
\* any advertiser of maximal value comes first
DescendingOrders(S) ==
    IF S = {} THEN {<<>>}
    ELSE UNION {{<<a>> \o t : t \in DescendingOrders(S \ {a})} :
                a \in {x \in S : \A y \in S : Py(values, x) >= Py(values, y)}}

\* np.argsort(-values): a permutation of 0..n-1 putting values in descending
\* order; the default sort kind is not stable, so equal values come in any order
ArgsortDescending == DescendingOrders(0..(Len(values) - 1))

\* a payment that forgets to subtract the next CTR
vcg_term_no_difference(si, j) == Py(ctrs, j - 1) * Py(values, Py(si, j))

\* payment += (ctrs[j-1] - ctrs[j]) * values[sorted_indices[j]]
vcg_term(si, j) == (Py(ctrs, j - 1) - Py(ctrs, j)) * Py(values, Py(si, j))

RECURSIVE vcg_payment(_, _, _)
\* sum of vcg_term over j in range(lo, hi)
vcg_payment(si, lo, hi) ==
    IF lo >= hi THEN 0 ELSE vcg_term(si, lo) + vcg_payment(si, lo + 1, hi)

vcg_price(si, i) ==
    IF Py(ctrs, i) > 0
    THEN Rat(vcg_payment(si, i + 1, Min(n_slots + 1, Len(si))), Py(ctrs, i))
    ELSE Zero

\* rank of advertiser adv in si (0-based)
RankOf(si, adv) == CHOOSE r \in 0..(Len(si) - 1) : Py(si, r) = adv

calculate_vcg_payments(si) ==
    [k \in 1..Len(values) |->
        IF RankOf(si, k - 1) < Min(n_slots, Len(si))
        THEN vcg_price(si, RankOf(si, k - 1))
        ELSE Zero]

ComputeVcg ==
    /\ ~vcg_done
    /\ \E si \in ArgsortDescending :
          /\ sorted_indices' = si
          /\ vcg_prices' = calculate_vcg_payments(si)
    /\ vcg_done' = TRUE
    /\ UNCHANGED <<instance, pc, err, locals>>

\* the oracle called on a constructed object, on its own
CalculateVcg ==
    /\ pc = "constructed"
    /\ ComputeVcg

\* the oracle called once run_auction is over, as run_simulation does
CalculateVcgAfterAuction ==
    /\ pc \in {"returned", "raised"}
    /\ ComputeVcg

\* the simulator alone
NextAuction ==
    \/ Construct
    \/ RunAuctionStart
    \/ ExcessRound
    \/ AllocRound
    \/ FinalAssign

\* the oracle alone
NextVcg ==
    \/ Construct
    \/ CalculateVcg

\* the simulator, then the oracle on the same instance
Next ==
    \/ NextAuction
    \/ CalculateVcgAfterAuction

Spec == Init /\ [][NextAuction]_vars
SpecStrict == InitStrict /\ [][Next]_vars
SpecEqual == InitEqual /\ [][NextAuction]_vars
SpecVcg == InitVcg /\ [][NextVcg]_vars
SpecAny == InitAny /\ [][NextAuction]_vars

\* ------------------------------------------------------------ properties
n_advertisers == Len(values)
Advertisers == 0..(n_advertisers - 1)
Slots == 0..(n_slots - 1)
Returned == pc = "returned"

\* the instance shapes the claims speak of
WellFormedCtrs == Len(ctrs) = n_slots + 1 /\ Py(ctrs, -1) = 0 /\ WeaklyDescending(ctrs)
ValidInstance == WellFormedCtrs /\ PositiveSlots(ctrs) /\ n_advertisers >= 1
StrictInstance ==
    /\ n_slots >= 2
    /\ WellFormedCtrs /\ StrictlyDescending(ctrs)
    /\ n_advertisers >= 1 /\ Distinct(values)

Holders == {allocation[k] : k \in 1..Len(allocation)} \ {-1}

\* C1: on instances with n_slots >= 2, strictly descending positive CTRs and
\* pairwise distinct values, run_auction's price of every advertiser equals
\* calculate_vcg_payments' price of that advertiser, in exact arithmetic.
C1_PricesEqualVcg ==
    (Returned /\ vcg_done /\ StrictInstance) => prices = vcg_prices

\* C1 witness: two slots, four advertisers (two excess rounds), both results
\* computed, and some winner pays a positive price.
C1_Witness ==
    /\ Returned /\ vcg_done /\ StrictInstance
    /\ n_slots = 2 /\ n_advertisers = 4
    /\ prices = vcg_prices
    /\ \E a \in Advertisers : RLess(Zero, Py(prices, a))

\* C2: on every valid instance run_auction returns without raising, after
\* exactly n_advertisers - 1 elimination rounds, with a history of that length.
C2_TerminatesAfterNMinus1Rounds ==
    ValidInstance =>
        /\ pc # "raised"
        /\ Returned => (rounds = n_advertisers - 1 /\ Len(history) = n_advertisers - 1)

\* C3: on strict instances the allocation follows the value ranking: of two
\* slot holders the one with the higher value holds the lower-index slot, and
\* every advertiser without a slot has a lower value than every slot holder.
C3_AllocationFollowsValueRanking ==
    (Returned /\ StrictInstance) =>
        /\ \A s, t \in Slots :
              (s < t /\ Py(allocation, s) # -1 /\ Py(allocation, t) # -1)
                  => Py(values, Py(allocation, s)) > Py(values, Py(allocation, t))
        /\ \A a \in Advertisers \ Holders : \A b \in Holders :
              Py(values, a) < Py(values, b)

\* C3 witness: a returned strict instance with all three slots held and one
\* advertiser left without a slot, whose identities are not in value order.
C3_Witness ==
    /\ Returned /\ StrictInstance
    /\ n_slots = 3 /\ n_advertisers = 4
    /\ Cardinality(Holders) = 3
    /\ Py(values, 0) < Py(values, 1)
    /\ Py(allocation, 0) = 3

\* C4: with 1 <= n_advertisers < n_slots the returned allocation holds an
\* advertiser in each of the slots 0 .. n_advertisers-1 and -1 in every slot
\* n_advertisers .. n_slots-1.
C4_UnassignedSlotsAreTheLast ==
    (Returned /\ ValidInstance /\ n_advertisers < n_slots) =>
        \A s \in Slots :
            /\ s < n_advertisers => Py(allocation, s) # -1
            /\ s >= n_advertisers => Py(allocation, s) = -1

NoAdvertiserTwice ==
    \A s, t \in 1..Len(allocation) :
        (s # t /\ allocation[s] # -1) => allocation[s] # allocation[t]

WrittenOnce ==
    \A s \in 1..Len(allocation) :
        allocation[s] # -1 =>
            (Len(allocation') = Len(allocation) /\ allocation'[s] = allocation[s])

\* C5: in every state reached during run_auction no advertiser id occurs in
\* more than one slot of the allocation, and a slot that already holds an
\* advertiser is never written again.
C5_NoDoubleAssignment == [][NoAdvertiserTwice' /\ WrittenOnce]_vars

\* C5 witness: a returned run in which every one of three slots is held.
C5_Witness ==
    /\ Returned /\ n_slots = 3
    /\ \A s \in Slots : Py(allocation, s) # -1
    /\ NoAdvertiserTwice

Malformed ==
    \/ Len(ctrs) # n_slots + 1
    \/ Py(ctrs, -1) # 0
    \/ ~WeaklyDescending(ctrs)
    \/ values = <<>>

\* C6: constructing from a malformed instance (CTR length mismatch, non-zero
\* terminal CTR, CTRs not weakly descending, empty values) fails at
\* construction; no such instance is accepted and then simulated.
C6_MalformedRejectedAtConstruction ==
    Malformed => pc \in {"new", "init_raised"}

\* C7: on non-negative weakly descending CTRs and positive values every VCG
\* price is >= 0; with strictly decreasing CTRs it is also <= the value of
\* the advertiser charged; advertisers ranked outside the top n_slots pay 0.
C7_VcgPricesBounded ==
    (vcg_done /\ WellFormedCtrs /\ n_advertisers >= 1) =>
        \A a \in Advertisers :
            /\ RLeq(Zero, Py(vcg_prices, a))
            /\ StrictlyDescending(ctrs)
                  => RLeq(Py(vcg_prices, a), FromInt(Py(values, a)))
            /\ RankOf(sorted_indices, a) >= n_slots => Py(vcg_prices, a) = Zero

\* C7 witness: strictly decreasing CTRs, more advertisers than slots, the
\* top advertiser pays a positive price below its value and a loser pays 0.
C7_Witness ==
    /\ vcg_done /\ WellFormedCtrs /\ StrictlyDescending(ctrs)
    /\ n_slots = 2 /\ n_advertisers = 4
    /\ RLess(Zero, Py(vcg_prices, Py(sorted_indices, 0)))
    /\ RLess(Py(vcg_prices, Py(sorted_indices, 0)),
             FromInt(Py(values, Py(sorted_indices, 0))))
    /\ Py(vcg_prices, Py(sorted_indices, 3)) = Zero

\* a step that completes one elimination round, in either phase
RoundStep == rounds' = rounds + 1
ActiveSet == {active_advertisers[k] : k \in 1..Len(active_advertisers)}
PriceNow(a) ==
    equilibrium_dropout_price(Len(active_advertisers), history, Py(values, a))

\* C8: at every elimination round, in both phases, the advertiser removed has
\* the minimum drop-out price over the advertisers active at that round, is
\* the lowest id among those tied at the minimum, and that minimum is the
\* price appended to history.
C8_LowestPriceLowestIdRemoved ==
    [][RoundStep =>
        /\ next_dropout' \in ActiveSet
        /\ \A a \in ActiveSet :
              /\ RLeq(PriceNow(next_dropout'), PriceNow(a))
              /\ PriceNow(a) = PriceNow(next_dropout') => next_dropout' <= a
        /\ history' = Append(history, PriceNow(next_dropout'))
        /\ active_advertisers' = Remove(active_advertisers, next_dropout')]_vars

\* C8 witness: after an excess round and an allocation round, the last round
\* removed an advertiser tied on price with a higher-id one still active.
C8_Witness ==
    /\ pc = "running" /\ rounds >= 2
    /\ Py(allocation, n_slots - 1) = next_dropout
    /\ \E a \in ActiveSet : a > next_dropout /\ Py(values, a) = Py(values, next_dropout)
    /\ dropout_prices[1][2] = dropout_prices[2][2]

m_index == Min(n_slots, n_advertisers - 1)

\* C9 as stated: when all advertisers share the value v (as in n_slots=2,
\* values=[5,5], ctrs=[1,0.5,0]), the price of the advertiser in slot 0 is v.
C9_EqualValuesPriceIsValue ==
    (Returned /\ ValidInstance /\ AllEqual(values) /\ n_advertisers >= 2) =>
        Py(prices, Py(allocation, 0)) = FromInt(Py(values, 0))

\* C9 amended: when all advertisers share the value v, the price of the
\* advertiser in slot 0 is v * (1 - ctrs[m] / ctrs[0]) with
\* m = min(n_slots, n_advertisers - 1); for n_slots=2, values=[5,5],
\* ctrs=[1,0.5,0] that is 5/2.
C9_EqualValuesPriceAmended ==
    (Returned /\ ValidInstance /\ AllEqual(values)) =>
        /\ Py(allocation, 0) # -1
        /\ Py(prices, Py(allocation, 0)) =
              RSub(FromInt(Py(values, 0)),
                   RMul(FromInt(Py(values, 0)), Rat(Py(ctrs, m_index), Py(ctrs, 0))))
        /\ (n_slots = 2 /\ values = <<5, 5>> /\ ctrs = <<2, 1, 0>>)
              => Py(prices, Py(allocation, 0)) = <<5, 2>>

\* C9 witness: the instance n_slots=2, values=[5,5], ctrs=[1,0.5,0] returned
\* with advertiser 1 in slot 0 at price 5/2.
C9_Witness ==
    /\ Returned /\ n_slots = 2 /\ values = <<5, 5>> /\ ctrs = <<2, 1, 0>>
    /\ allocation = <<1, 0>>
    /\ Py(prices, 1) = <<5, 2>>

\* C10: whenever the drop-out price is evaluated with more active advertisers
\* than slots, alpha_{i-1} = ctrs[n_slots-1] and alpha_i = ctrs[n_slots] = 0,
\* so each price recorded in the excess-elimination phase equals the
\* eliminated advertiser's own value.
C10_ExcessPriceIsOwnValue ==
    [][(pc = "running" /\ ValidInstance /\ Len(active_advertisers) > n_slots) =>
        /\ pc' # "raised"
        /\ alpha_i_index(Len(active_advertisers)) \in {n_slots, -1}
        /\ alpha_i_minus_1_index(Len(active_advertisers)) \in {n_slots - 1, -2}
        /\ RoundStep => price' = FromInt(Py(values, next_dropout'))]_vars
====
